---- MODULE Spec2Model ----
(***************************************************************************)
(* Model of reverb/cc/reverb_service_impl.cc:                              *)
(*   - WorkerlessSampleReactor (SampleStream), variable `sample`           *)
(*   - WorkerlessInsertReactor (InsertStream), variable `insert`           *)
(*   - WorkerlessInsertReactor::ReleaseOutOfRangeChunks as a function,     *)
(*     variable `release`                                                  *)
(*   - the destructors of the two stream reactors and the cell of their    *)
(*     completion callback, variable `teardown`                            *)
(*   - InitializeConnection::Reactor, variable `connection`                *)
(*   - ReverbServiceImpl::Initialize, MutatePriorities and Reset,          *)
(*     variable `service`                                                  *)
(* Each reactor is one record: the fields of the C++ object under their    *)
(* source names, followed by the state of its collaborators (the gRPC      *)
(* transport: reads/writes in flight, Finish status; the table: requests   *)
(* it still has to answer) and by history fields used only by properties.  *)
(* The reactor skeleton ReverbServerReactor, SampleTaskInfo and Table are  *)
(* declared in headers that are not part of the source file; they are      *)
(* modelled from the specification (sections 4.1, 4.2, 4.3).               *)
(***************************************************************************)
EXTENDS Integers, Sequences, FiniteSets, TLC

VARIABLES sample, insert, release, teardown, connection, service

vars == <<sample, insert, release, teardown, connection, service>>

(***************************************************************************)
(* Program constants.                                                      *)
(***************************************************************************)
kMaxSampleResponseSizeBytes == 1048576

kMaxQueuedResponses == 3

\* Sampler::kAutoSelectValue, the auto-select sentinel of flexible_batch_size.
kAutoSelectValue == -1

(***************************************************************************)
(* Bounds of the model.                                                    *)
(***************************************************************************)
\* Largest number of chunks of one sampled item.
MaxChunks == 2

\* Number of items the table delivers on one sample stream, over all requests.
MaxSampled == 3

\* Number of items a client submits on one insert stream.
MaxItems == 3

\* Largest chunk key and longest keep_chunk_keys list given to
\* ReleaseOutOfRangeChunks on its own.
MaxChunkKey == 3

MaxKeep == 3

\* Serialized sizes (ChunkData::ByteSizeLong) of the chunks a table holds:
\* 600 KiB (two of them exceed 1 MiB together) and one byte more than 1 MiB.
ChunkSizes == {614400, 1048577}

\* flexible_batch_size values a client sends (0 is invalid).
BatchSizes == {0, 1, 2, kAutoSelectValue}

SeqsUpTo(S, n) == UNION {[1..k -> S] : k \in 0..n}

Last(s) == s[Len(s)]

Min(a, b) == IF a < b THEN a ELSE b

RECURSIVE SumSeq(_)
SumSeq(s) == IF s = <<>> THEN 0 ELSE s[1] + SumSeq(Tail(s))

RECURSIVE Flatten(_)
Flatten(ss) == IF ss = <<>> THEN <<>> ELSE ss[1] \o Flatten(Tail(ss))

Range(s) == {s[i] : i \in DOMAIN s}

IsPrefix(s, t) == Len(s) <= Len(t) /\ SubSeq(t, 1, Len(s)) = s

(***************************************************************************)
(* gRPC transport and reactor skeleton (ReverbServerReactor).              *)
(* Fields: reads / writes = operations started and not yet completed,      *)
(* finish_status = the status passed to Finish ("none" before).            *)
(***************************************************************************)
StartRead(r) == [r EXCEPT !.reads = @ + 1]

StartWrite(r) == [r EXCEPT !.writes = @ + 1]

Finish(r, status) == [r EXCEPT !.finish_status = status]

\* SetReactorAsFinished: flips is_finished, drops queued responses, signals
\* completion with `status`.
SetReactorAsFinished(r, status) ==
    Finish([r EXCEPT !.is_finished_ = TRUE, !.responses_to_send_ = <<>>], status)

\* MaybeStartRead: begin a read if none is in flight and the reactor is not
\* finished.
MaybeStartRead(r) ==
    IF ~r.is_finished_ /\ r.reads = 0 THEN StartRead(r) ELSE r

\* MaybeSendNextResponse: start a write from the queue head iff no write is
\* in flight, the queue is non-empty and the reactor is not finished.
MaybeSendNextResponse(r) ==
    IF ~r.is_finished_ /\ r.responses_to_send_ # <<>> /\ r.writes = 0
    THEN StartWrite(r) ELSE r

\* ReverbServerReactor::OnWriteDone: no effect once finished; a failed write
\* finishes the reactor; otherwise pop the head and chain the next write.
BaseOnWriteDone(r, ok) ==
    IF r.is_finished_ THEN r
    ELSE IF ~ok THEN SetReactorAsFinished(r, "INTERNAL")
    ELSE MaybeSendNextResponse(
             [r EXCEPT !.responses_to_send_ = Tail(@)])

(***************************************************************************)
(* WorkerlessSampleReactor.                                                *)
(***************************************************************************)
\* SampleTaskInfo::NextSampleSize.
NextSampleSize(task_info) ==
    LET remaining == task_info.requested_samples - task_info.fetched_samples
    IN  IF remaining = 0 THEN 0
        ELSE Min(remaining, task_info.flexible_batch_size)

\* Table::EnqueSampleRequest: the table keeps the request until it calls
\* sampling_done.
EnqueSampleRequest(r, batch_size) ==
    [r EXCEPT !.table_requests = Append(@, batch_size)]

\* Mutant: the queue limit is not tested.
MaybeStartSampling_NoQueueCheck(r) ==
    LET next_batch_size == NextSampleSize(r.task_info_)
    IN  IF next_batch_size = 0 THEN r
        ELSE IF r.waiting_for_enqueued_sample_ THEN r
        ELSE EnqueSampleRequest(
                 [r EXCEPT !.waiting_for_enqueued_sample_ = TRUE],
                 next_batch_size)

\* Mutant: the queue limit is tested with > instead of >=.
MaybeStartSampling_OffByOne(r) ==
    LET next_batch_size == NextSampleSize(r.task_info_)
    IN  IF next_batch_size = 0 THEN r
        ELSE IF r.waiting_for_enqueued_sample_ THEN r
        ELSE IF Len(r.responses_to_send_) > kMaxQueuedResponses THEN r
        ELSE EnqueSampleRequest(
                 [r EXCEPT !.waiting_for_enqueued_sample_ = TRUE],
                 next_batch_size)

MaybeStartSampling(r) ==
    LET next_batch_size == NextSampleSize(r.task_info_)
    IN  IF next_batch_size = 0 THEN r
        ELSE IF r.waiting_for_enqueued_sample_ THEN r
        ELSE IF Len(r.responses_to_send_) >= kMaxQueuedResponses THEN r
        ELSE EnqueSampleRequest(
                 [r EXCEPT !.waiting_for_enqueued_sample_ = TRUE],
                 next_batch_size)

\* A fresh SampleStreamResponseCtx and a fresh entry of its payload.  The
\* field `item` of an entry is a history field: the sampled item the entry
\* was built from.
NewResponseCtx == [entries |-> <<>>, table_items |-> <<>>]

NewEntry(id) ==
    [item |-> id, has_info |-> FALSE, end_of_sequence |-> FALSE, data |-> <<>>]

\* responses_to_send_.emplace(); current_response_size_bytes_ = 0;
EmplaceResponse(r) ==
    [r EXCEPT !.responses_to_send_ = Append(@, NewResponseCtx),
              !.current_response_size_bytes_ = 0]

\* responses_to_send_.back().payload.add_entries()
AddEntries(r, id) ==
    LET n == Len(r.responses_to_send_)
    IN  [r EXCEPT !.responses_to_send_[n].entries = Append(@, NewEntry(id))]

\* Mutant: the size of the current response is not tested.
NeedsNewResponse_NoSizeCheck(r, write_in_flight) ==
    \/ r.responses_to_send_ = <<>>
    \/ (Len(r.responses_to_send_) = 1 /\ write_in_flight)

\* Mutant: a single queued response is extended although it is being written.
NeedsNewResponse_IgnoresWriteInFlight(r, write_in_flight) ==
    \/ r.responses_to_send_ = <<>>
    \/ r.current_response_size_bytes_ > kMaxSampleResponseSizeBytes

\* The condition under which ProcessSample opens a new response before it
\* adds the item's entry.
NeedsNewResponse(r, write_in_flight) ==
    \/ r.responses_to_send_ = <<>>
    \/ (Len(r.responses_to_send_) = 1 /\ write_in_flight)
    \/ r.current_response_size_bytes_ > kMaxSampleResponseSizeBytes

\* Mutant: the response is sealed after the last chunk of the item too.
SplitAfterChunk_AlsoAfterLast(size_bytes, i, n) ==
    size_bytes > kMaxSampleResponseSizeBytes

\* The condition under which the loop of ProcessSample seals the response
\* after chunk i of n and continues the item in a new one.
SplitAfterChunk(size_bytes, i, n) ==
    i < n /\ size_bytes > kMaxSampleResponseSizeBytes

\* One iteration of the loop of ProcessSample, for chunk i (1-based).
PackChunk(r, item, i) ==
    LET n  == Len(r.responses_to_send_)
        e  == Len(r.responses_to_send_[n].entries)
        nc == Len(item.chunks)
        r1 == [r EXCEPT
                 !.responses_to_send_[n].entries[e].end_of_sequence = (i = nc),
                 !.responses_to_send_[n].entries[e].has_info =
                     IF i = 1 THEN TRUE ELSE @,
                 !.responses_to_send_[n].entries[e].data =
                     Append(@, item.chunks[i]),
                 !.current_response_size_bytes_ = @ + item.chunks[i]]
    IN  IF SplitAfterChunk(r1.current_response_size_bytes_, i, nc)
        THEN AddEntries(EmplaceResponse(r1), item.id)
        ELSE r1

RECURSIVE PackChunks(_, _, _)
PackChunks(r, item, i) ==
    IF i > Len(item.chunks) THEN r
    ELSE PackChunks(PackChunk(r, item, i), item, i + 1)

\* Mutant: the reference goes to the first queued response that holds an
\* entry of the item.
AddTableItem_ToFirstResponseOfItem(r, id) ==
    LET n == CHOOSE i \in DOMAIN r.responses_to_send_ :
                 /\ \E e \in DOMAIN r.responses_to_send_[i].entries :
                        r.responses_to_send_[i].entries[e].item = id
                 /\ \A j \in 1..(i - 1) :
                        \A e \in DOMAIN r.responses_to_send_[j].entries :
                            r.responses_to_send_[j].entries[e].item # id
    IN  [r EXCEPT !.responses_to_send_[n].table_items = Append(@, id)]

\* response->AddTableItem(sample->ref)
AddTableItem(r, id) ==
    LET n == Len(r.responses_to_send_)
    IN  [r EXCEPT !.responses_to_send_[n].table_items = Append(@, id)]

ProcessSample(r, item, write_in_flight) ==
    LET r1 == IF NeedsNewResponse(r, write_in_flight)
              THEN EmplaceResponse(r) ELSE r
        r2 == AddEntries(r1, item.id)
        r3 == PackChunks(r2, item, 1)
    IN  AddTableItem(r3, item.id)

RECURSIVE ProcessSamples(_, _, _)
ProcessSamples(r, samples, write_in_flight) ==
    IF samples = <<>> THEN r
    ELSE ProcessSamples(ProcessSample(r, Head(samples), write_in_flight),
                        Tail(samples), write_in_flight)


\* WorkerlessSampleReactor::ProcessIncomingRequest.  Returns the reactor and
\* the status.  `default_batch` is Table::DefaultFlexibleBatchSize().  The
\* rate limiter timeout is stored and handed to the table; it changes no
\* reactor state and is left out.
SampleProcessIncomingRequest(r, request, default_batch) ==
    IF request.num_samples <= 0
    THEN [reactor |-> r, status |-> "INVALID_ARGUMENT"]
    ELSE IF request.flexible_batch_size <= 0
            /\ request.flexible_batch_size # kAutoSelectValue
    THEN [reactor |-> r, status |-> "INVALID_ARGUMENT"]
    ELSE IF request.table = "unknown"
    THEN [reactor |-> [r EXCEPT !.task_info_.table = "null"],
          status  |-> "NOT_FOUND"]
    ELSE LET r1 == [r EXCEPT
                      !.task_info_.table = request.table,
                      !.task_info_.flexible_batch_size =
                          IF request.flexible_batch_size = kAutoSelectValue
                          THEN default_batch
                          ELSE request.flexible_batch_size,
                      !.task_info_.fetched_samples = 0,
                      !.task_info_.requested_samples = request.num_samples,
                      !.requested_total = @ + request.num_samples]
         IN  [reactor |-> MaybeStartSampling(r1), status |-> "OK"]

\* ReverbServerReactor::OnReadDone for the sample stream: no effect once
\* finished; a failed read (the client closed the stream) finishes with OK;
\* a non-OK status of ProcessIncomingRequest finishes with that status.
SampleBaseOnReadDone(r, ok, request, default_batch) ==
    IF r.is_finished_ THEN r
    ELSE IF ~ok THEN SetReactorAsFinished(r, "OK")
    ELSE LET res == SampleProcessIncomingRequest(r, request, default_batch)
         IN  IF res.status # "OK"
             THEN SetReactorAsFinished(res.reactor, res.status)
             ELSE res.reactor

\* Mutant: a write completion does not re-arm sampling.
SampleWriteDone_NoResample(r, ok) == BaseOnWriteDone(r, ok)

\* WorkerlessSampleReactor::OnWriteDone.
SampleWriteDone(r, ok) == MaybeStartSampling(BaseOnWriteDone(r, ok))

\* Mutant: the callback goes on to MaybeStartRead also when samples are owed.
SamplingDoneLocked_AlwaysReads(r, result) ==
    LET r1 == [r EXCEPT !.waiting_for_enqueued_sample_ = FALSE]
    IN  IF result.status # "OK"
        THEN IF ~r1.is_finished_
             THEN SetReactorAsFinished(r1, result.status)
             ELSE r1
        ELSE
          LET r2 == [r1 EXCEPT !.task_info_.fetched_samples =
                                   @ + Len(result.samples)]
              already_writing == r2.responses_to_send_ # <<>>
              r3 == ProcessSamples(r2, result.samples, already_writing)
              r4 == IF ~already_writing THEN MaybeSendNextResponse(r3) ELSE r3
          IN  IF NextSampleSize(r4.task_info_) # 0
              THEN [MaybeStartSampling(r4) EXCEPT !.callback_pc = "start_read"]
              ELSE [r4 EXCEPT !.callback_pc = "start_read"]

\* The part of the sampling_done_ callback that runs under the mutex.
\* `result` is the Table::SampleRequest: its status and its samples.
\* callback_pc = "start_read" when the callback left the block to call
\* MaybeStartRead.
SamplingDoneLocked(r, result) ==
    LET r1 == [r EXCEPT !.waiting_for_enqueued_sample_ = FALSE]
    IN  IF result.status # "OK"
        THEN IF ~r1.is_finished_
             THEN SetReactorAsFinished(r1, result.status)
             ELSE r1
        ELSE
          LET r2 == [r1 EXCEPT !.task_info_.fetched_samples =
                                   @ + Len(result.samples)]
              already_writing == r2.responses_to_send_ # <<>>
              r3 == ProcessSamples(r2, result.samples, already_writing)
              r4 == IF ~already_writing THEN MaybeSendNextResponse(r3) ELSE r3
          IN  IF NextSampleSize(r4.task_info_) # 0
              THEN MaybeStartSampling(r4)
              ELSE [r4 EXCEPT !.callback_pc = "start_read"]

(***************************************************************************)
(* WorkerlessInsertReactor.                                                *)
(* chunks_ is the set of keys of the local chunk map.  The table keeps in  *)
(* table_inserts the keys of the items it accepted and has not yet         *)
(* reported through insert_completed.                                      *)
(***************************************************************************)
\* SaveChunks: a chunk whose key is already held is dropped.
SaveChunks(chunks, request_chunks) == chunks \cup request_chunks

\* Mutant: only the first chunk key of the flat trajectory is looked up.
GetItemWithChunks_FirstKeyOnly(chunks, trajectory) ==
    IF trajectory = <<>> \/ trajectory[1] \in chunks
    THEN "OK" ELSE "INTERNAL"

\* GetItemWithChunks: OK iff every chunk key of the flat trajectory is held.
GetItemWithChunks(chunks, trajectory) ==
    IF \A i \in DOMAIN trajectory : trajectory[i] \in chunks
    THEN "OK" ELSE "INTERNAL"

\* Mutant: FailedPrecondition only when more chunks remain than keys to keep.
ReleaseOutOfRangeChunks_OnlyWhenMore(chunks, keep_keys) ==
    LET kept == {k \in chunks : \E i \in DOMAIN keep_keys : keep_keys[i] = k}
    IN  [chunks |-> kept,
         status |-> IF Cardinality(kept) > Len(keep_keys)
                    THEN "FAILED_PRECONDITION" ELSE "OK"]

\* ReleaseOutOfRangeChunks: erase every chunk whose key is not in keep_keys,
\* then compare the number of chunks left with the length of keep_keys.
ReleaseOutOfRangeChunks(chunks, keep_keys) ==
    LET kept == {k \in chunks : \E i \in DOMAIN keep_keys : keep_keys[i] = k}
    IN  [chunks |-> kept,
         status |-> IF Cardinality(kept) # Len(keep_keys)
                    THEN "FAILED_PRECONDITION" ELSE "OK"]

\* Table::InsertOrAssignAsync for the item with key `key`.  `outcome` is what
\* the table does: "admitted" (accepts, sets *can_insert = true), "queued"
\* (accepts, sets *can_insert = false) or "error" (returns a non-OK status
\* and accepts nothing).  An accepted item is acknowledged later through
\* insert_completed.
InsertOrAssignAsync(r, key, outcome, can_insert) ==
    IF outcome = "error"
    THEN [reactor |-> r, status |-> "CANCELLED", can_insert |-> can_insert]
    ELSE [reactor |-> [r EXCEPT !.table_inserts = @ \cup {key},
                                !.admitted = @ \cup {key}],
          status |-> "OK",
          can_insert |-> (outcome = "admitted")]

\* Mutant: an item with a missing chunk is skipped and the loop goes on.
RECURSIVE InsertItems_SkipsItemWithMissingChunk(_, _, _, _)
InsertItems_SkipsItemWithMissingChunk(r, items, i, can_insert) ==
    IF i > Len(items)
    THEN [reactor |-> r, status |-> "OK", can_insert |-> can_insert]
    ELSE
      LET key == r.next_key + 1
          r1  == [r EXCEPT !.next_key = key,
                           !.last.submitted = Append(@, key)]
      IN  IF GetItemWithChunks(r.chunks_, items[i].trajectory) # "OK"
          THEN InsertItems_SkipsItemWithMissingChunk(
                   [r EXCEPT !.next_key = key], items, i + 1, can_insert)
          ELSE IF items[i].table = "unknown"
          THEN [reactor |-> [r EXCEPT !.next_key = key],
                status |-> "NOT_FOUND", can_insert |-> can_insert]
          ELSE
            LET res == InsertOrAssignAsync(r1, key, items[i].outcome,
                                           can_insert)
            IN  IF res.status # "OK"
                THEN [reactor |-> [r EXCEPT !.next_key = key],
                      status |-> res.status, can_insert |-> can_insert]
                ELSE InsertItems_SkipsItemWithMissingChunk(
                         [res.reactor EXCEPT !.last.queued =
                              @ \/ items[i].outcome = "queued"],
                         items, i + 1, res.can_insert)

\* The loop of ProcessIncomingRequest over the items of the request, from
\* item i on.  Item i gets the next unused item key.
RECURSIVE InsertItems(_, _, _, _)
InsertItems(r, items, i, can_insert) ==
    IF i > Len(items)
    THEN [reactor |-> r, status |-> "OK", can_insert |-> can_insert]
    ELSE
      LET key == r.next_key + 1
          r1  == [r EXCEPT !.next_key = key,
                           !.last.submitted = Append(@, key)]
      IN  IF GetItemWithChunks(r.chunks_, items[i].trajectory) # "OK"
          THEN [reactor |-> [r EXCEPT !.next_key = key], status |-> "INTERNAL",
                can_insert |-> can_insert]
          ELSE IF items[i].table = "unknown"
          THEN [reactor |-> [r EXCEPT !.next_key = key],
                status |-> "NOT_FOUND", can_insert |-> can_insert]
          ELSE
            LET res == InsertOrAssignAsync(r1, key, items[i].outcome,
                                           can_insert)
            IN  IF res.status # "OK"
                THEN [reactor |-> [r EXCEPT !.next_key = key],
                      status |-> res.status, can_insert |-> can_insert]
                ELSE InsertItems(
                         [res.reactor EXCEPT !.last.queued =
                              @ \/ items[i].outcome = "queued"],
                         items, i + 1, res.can_insert)

\* WorkerlessInsertReactor::ProcessIncomingRequest.  Returns the reactor and
\* the status.
InsertProcessIncomingRequest(r, request) ==
    LET r1 == [r EXCEPT !.read_in_flight_ = FALSE]
    IN  IF request.chunks = {} /\ request.items = <<>>
        THEN [reactor |-> r1, status |-> "INVALID_ARGUMENT"]
        ELSE
          LET r2 == [r1 EXCEPT !.chunks_ = SaveChunks(@, request.chunks)]
          IN  IF request.items = <<>>
              THEN [reactor |-> StartRead([r2 EXCEPT !.read_in_flight_ = TRUE]),
                    status |-> "OK"]
              ELSE
                LET ins == InsertItems(r2, request.items, 1, TRUE)
                    rel == ReleaseOutOfRangeChunks(ins.reactor.chunks_,
                                                   request.keep_chunk_keys)
                    r3  == [ins.reactor EXCEPT !.chunks_ = rel.chunks]
                IN  IF ins.status # "OK"
                    THEN [reactor |-> ins.reactor, status |-> ins.status]
                    ELSE IF rel.status # "OK"
                    THEN [reactor |-> r3, status |-> rel.status]
                    ELSE IF ins.can_insert
                    THEN [reactor |->
                              StartRead([r3 EXCEPT !.read_in_flight_ = TRUE]),
                          status |-> "OK"]
                    ELSE [reactor |-> r3, status |-> "OK"]

\* ReverbServerReactor::OnReadDone for the insert stream: no effect once
\* finished; a failed read (the client closed the stream) finishes with OK;
\* a non-OK status of ProcessIncomingRequest finishes with that status.
InsertBaseOnReadDone(r, ok, request) ==
    IF r.is_finished_ THEN r
    ELSE IF ~ok THEN SetReactorAsFinished(r, "OK")
    ELSE LET res == InsertProcessIncomingRequest(r, request)
             r1  == [res.reactor EXCEPT !.last.status = res.status]
         IN  IF res.status # "OK"
             THEN SetReactorAsFinished(r1, res.status)
             ELSE r1

\* Mutant: a response is opened only when the queue is empty.
OpensResponse_OnlyWhenEmpty(responses) == Len(responses) < 1

\* Mutant: a third response may be opened.
OpensResponse_UpToThree(responses) == Len(responses) < 3

\* insert_completed_ opens a response when fewer than 2 are queued, so that
\* the response in flight is not modified.
OpensResponse(responses) == Len(responses) < 2

\* Mutant: the key is added to the response at the head of the queue.
AddKey_ToHead(responses, key) ==
    [responses EXCEPT ![1].keys = Append(@, key)]

\* Mutant: the key is put in front of the keys of the tail response.
AddKey_InFront(responses, key) ==
    [responses EXCEPT ![Len(responses)].keys = <<key>> \o @]

\* responses_to_send_.back().payload.add_keys(key)
AddKey(responses, key) ==
    [responses EXCEPT ![Len(responses)].keys = Append(@, key)]

\* Mutant: the callback resumes reading without testing read_in_flight_.
InsertCompleted_AlwaysStartsRead(r, key) ==
    LET r1 == StartRead([r EXCEPT !.read_in_flight_ = TRUE])
    IN  IF r1.is_finished_ THEN r1
        ELSE
          LET r2 == IF OpensResponse(r1.responses_to_send_)
                    THEN [r1 EXCEPT !.responses_to_send_ =
                                        Append(@, [keys |-> <<>>])]
                    ELSE r1
              r3 == [r2 EXCEPT !.responses_to_send_ = AddKey(@, key)]
          IN  IF Len(r3.responses_to_send_) = 1
              THEN MaybeSendNextResponse(r3)
              ELSE r3

\* The insert_completed_ callback, called by the table with an item key.
InsertCompleted(r, key) ==
    LET r1 == IF ~r.read_in_flight_
              THEN StartRead([r EXCEPT !.read_in_flight_ = TRUE])
              ELSE r
    IN  IF r1.is_finished_ THEN r1
        ELSE
          LET r2 == IF OpensResponse(r1.responses_to_send_)
                    THEN [r1 EXCEPT !.responses_to_send_ =
                                        Append(@, [keys |-> <<>>])]
                    ELSE r1
              r3 == [r2 EXCEPT !.responses_to_send_ = AddKey(@, key)]
          IN  IF Len(r3.responses_to_send_) = 1
              THEN MaybeSendNextResponse(r3)
              ELSE r3

\* History: `written` collects the keys of every response handed to
\* StartWrite, as it was when the write started.
LogWrite(before, after) ==
    IF after.writes > before.writes
    THEN [after EXCEPT !.written = @ \o Head(after.responses_to_send_).keys]
    ELSE after

\* History: the position, in a message that ProcessIncomingRequest is given,
\* of the first item whose flat trajectory names a chunk key that the local
\* chunk map does not hold once the chunks of the message are saved (0 if
\* there is none).
FirstMissing(chunks, items) ==
    LET missing == {i \in DOMAIN items :
                      \E k \in DOMAIN items[i].trajectory :
                          items[i].trajectory[k] \notin chunks}
    IN  IF missing = {} THEN 0
        ELSE CHOOSE i \in missing : \A j \in missing : i <= j

\* History: the position, in a message that ProcessIncomingRequest is given,
\* of the first item that cannot be submitted: its flat trajectory names a
\* chunk that is not held, its table is unknown, or the table answers with
\* an error (0 if there is none).
FirstFailing(chunks, items) ==
    LET failing == {i \in DOMAIN items :
                      \/ \E k \in DOMAIN items[i].trajectory :
                             items[i].trajectory[k] \notin chunks
                      \/ items[i].table = "unknown"
                      \/ items[i].outcome = "error"}
    IN  IF failing = {} THEN 0
        ELSE CHOOSE i \in failing : \A j \in failing : i <= j

\* History: last.read_started tells whether the step called StartRead.
LogRead(before, after) ==
    [after EXCEPT !.last.read_started = after.reads > before.reads]

(***************************************************************************)
(* Sample stream: state after construction, and one action per handler.    *)
(***************************************************************************)
\* Shapes of the items a table can hold: the sizes of the item's chunks.
ItemShapes == SeqsUpTo(ChunkSizes, MaxChunks)

SampleRequests(budget) ==
    [num_samples : 0..budget, flexible_batch_size : BatchSizes,
     table : {"known", "unknown"}]

\* current_response_size_bytes_ has no initializer: its first value is any
\* value.
SampleConstructed(size_bytes) ==
    MaybeStartRead(
      [is_finished_ |-> FALSE,
       responses_to_send_ |-> <<>>,
       current_response_size_bytes_ |-> size_bytes,
       waiting_for_enqueued_sample_ |-> FALSE,
       task_info_ |-> [table |-> "null", requested_samples |-> 0,
                       fetched_samples |-> 0, flexible_batch_size |-> 0],
       reads |-> 0, writes |-> 0, finish_status |-> "none",
       table_requests |-> <<>>,
       callback_pc |-> "idle",
       requested_total |-> 0, sampled |-> 0,
       last |-> [op |-> "constructor", samples |-> <<>>]])

InsertIdle == [is_finished_ |-> TRUE]

ReleaseIdle == [chunks_ |-> {}]

\* The variables of the other parts of the service while a stream is
\* observed: no reactor is being destroyed, no connection is being
\* initialized, the service is initialized.
TeardownIdle == [destructor_pc |-> "none"]

ConnectionIdle == [pc |-> "none"]

ServiceIdle == [pc |-> "serving"]

OthersIdle ==
    /\ teardown = TeardownIdle
    /\ connection = ConnectionIdle
    /\ service = ServiceIdle

SampleInit ==
    /\ \E size_bytes \in {0, kMaxSampleResponseSizeBytes + 1} :
           sample = SampleConstructed(size_bytes)
    /\ insert = InsertIdle
    /\ release = ReleaseIdle
    /\ OthersIdle

SampleOnReadDone ==
    /\ sample.reads > 0
    /\ \E ok \in BOOLEAN :
       \E request \in SampleRequests(MaxSampled - sample.requested_total) :
       \E default_batch \in {b \in BatchSizes : b > 0} :
         sample' = [SampleBaseOnReadDone([sample EXCEPT !.reads = @ - 1],
                                         ok, request, default_batch)
                      EXCEPT !.last = [op |-> "OnReadDone", samples |-> <<>>]]
    /\ UNCHANGED <<insert, release, teardown, connection, service>>

\* The transport completes the write in flight, successfully or not.
SampleWriteCompletes(ok) ==
    /\ sample.writes > 0
    /\ sample' = [SampleWriteDone([sample EXCEPT !.writes = @ - 1], ok)
                    EXCEPT !.last = [op |-> "OnWriteDone", samples |-> <<>>]]
    /\ UNCHANGED <<insert, release, teardown, connection, service>>

SampleWriteSucceeds == SampleWriteCompletes(TRUE)

SampleWriteFails == SampleWriteCompletes(FALSE)

SampleOnWriteDone == SampleWriteSucceeds \/ SampleWriteFails

\* The table answers its oldest sample request with an error status.
SamplingFails ==
    /\ sample.table_requests # <<>>
    /\ LET r0 == [sample EXCEPT !.table_requests = Tail(@)]
       IN  \E status \in {"DEADLINE_EXCEEDED"} :
                sample' = [SamplingDoneLocked(r0, [status |-> status,
                                                   samples |-> <<>>])
                             EXCEPT !.last = [op |-> "sampling_done",
                                              samples |-> <<>>]]
    /\ UNCHANGED <<insert, release, teardown, connection, service>>

\* The table answers its oldest sample request with 1..batch_size items, of
\* the given shapes.
SamplingAnswers(item_shapes) ==
    /\ sample.table_requests # <<>>
    /\ LET batch_size == Head(sample.table_requests)
           r0 == [sample EXCEPT !.table_requests = Tail(@)]
       IN  \E k \in 1..batch_size :
           \E shapes \in [1..k -> item_shapes] :
                LET samples == [i \in 1..k |->
                                  [id |-> r0.sampled + i, chunks |-> shapes[i]]]
                IN  /\ r0.sampled + k <= MaxSampled
                    /\ sample' =
                         [SamplingDoneLocked(
                              [r0 EXCEPT !.sampled = @ + k],
                              [status |-> "OK", samples |-> samples])
                            EXCEPT !.last = [op |-> "sampling_done",
                                             samples |-> samples]]
    /\ UNCHANGED <<insert, release, teardown, connection, service>>

SamplingSucceeds == SamplingAnswers(ItemShapes)

\* The sampling_done_ callback under the mutex: the table answers with an
\* error status, or with items.
SamplingDone == SamplingFails \/ SamplingSucceeds

\* The tail of the sampling_done_ callback, outside the mutex.
SamplingDoneStartRead ==
    /\ sample.callback_pc = "start_read"
    /\ sample' = [MaybeStartRead([sample EXCEPT !.callback_pc = "idle"])
                    EXCEPT !.last = [op |-> "sampling_done_read",
                                     samples |-> <<>>]]
    /\ UNCHANGED <<insert, release, teardown, connection, service>>

SampleNext ==
    \/ SampleOnReadDone
    \/ SampleOnWriteDone
    \/ SamplingDone
    \/ SamplingDoneStartRead

SpecSample == SampleInit /\ [][SampleNext]_vars

\* The sample stream with a table that answers every sample request with OK
\* and a transport that completes every write successfully; every started
\* write completes, every enqueued sample request is answered, and a
\* callback that left the mutex runs to its end.  The client is free to send
\* the next request, to close the stream, or to do nothing.  The table's
\* items have no chunk, one chunk that shares a response, or one or two
\* chunks that each fill a response.
ProgressShapes ==
    {<<>>, <<614400>>, <<1048577>>, <<1048577, 1048577>>}

SamplingSucceedsEventually == SamplingAnswers(ProgressShapes)

SampleProgressNext ==
    \/ SampleOnReadDone
    \/ SampleWriteSucceeds
    \/ SamplingSucceedsEventually
    \/ SamplingDoneStartRead

SpecSampleProgress ==
    /\ SampleInit
    /\ [][SampleProgressNext]_vars
    /\ WF_vars(SampleWriteSucceeds)
    /\ WF_vars(SamplingSucceedsEventually)
    /\ WF_vars(SamplingDoneStartRead)


(***************************************************************************)
(* Properties of the sample stream.                                        *)
(***************************************************************************)
SampleQueue == sample.responses_to_send_

\* The chunk sizes a response carries, in order.
ResponseChunks(response) ==
    Flatten([i \in DOMAIN response.entries |-> response.entries[i].data])

\* The entries of all queued responses, in queue order.
QueuedEntries == Flatten([i \in DOMAIN SampleQueue |-> SampleQueue[i].entries])

\* The largest number of responses ProcessSample can open for a batch: one
\* per chunk, and one for an item without chunks.
RECURSIVE MostResponses(_)
MostResponses(samples) ==
    IF samples = <<>> THEN 0
    ELSE (IF Len(Head(samples).chunks) = 0 THEN 1 ELSE Len(Head(samples).chunks))
         + MostResponses(Tail(samples))

C2_ResponseAtMostOneMiB ==
    \A i \in DOMAIN SampleQueue :
        \/ SumSeq(ResponseChunks(SampleQueue[i])) <= kMaxSampleResponseSizeBytes
        \/ /\ Len(SampleQueue[i].entries) = 1
           /\ Len(SampleQueue[i].entries[1].data) = 1
           /\ SampleQueue[i].entries[1].data[1] > kMaxSampleResponseSizeBytes

\* C2 as amended: the size is tested after a chunk is added, so a response
\* exceeds 1 MiB by at most its last chunk: the chunk payload of every
\* response without its last chunk is at most 1 MiB.
C2_ResponseWithoutLastChunkAtMostOneMiB ==
    \A i \in DOMAIN SampleQueue :
        LET chunks == ResponseChunks(SampleQueue[i])
        IN  chunks # <<>> =>
              SumSeq(SubSeq(chunks, 1, Len(chunks) - 1))
                  <= kMaxSampleResponseSizeBytes

\* C2 witness: a queued response with several chunks carries more than 1 MiB.
C2_Witness ==
    \E i \in DOMAIN SampleQueue :
        /\ Len(ResponseChunks(SampleQueue[i])) > 1
        /\ SumSeq(ResponseChunks(SampleQueue[i])) > kMaxSampleResponseSizeBytes

\* The entries built from item `id`, in queue order, and their positions.
EntriesOfItem(entries, id) == SelectSeq(entries, LAMBDA e : e.item = id)

PositionsOfItem(entries, id) == {i \in DOMAIN entries : entries[i].item = id}

\* The entries of `item` are contiguous, carry the item's chunks in order,
\* the info header on the first entry only and end_of_sequence on the last
\* entry only.
ItemReproduced(entries, item) ==
    LET own == EntriesOfItem(entries, item.id)
        pos == PositionsOfItem(entries, item.id)
    IN  /\ own # <<>>
        /\ \A i, j \in pos : \A k \in i..j : k \in pos
        /\ Flatten([i \in DOMAIN own |-> own[i].data]) = item.chunks
        /\ \A i \in DOMAIN own : own[i].has_info <=> (i = 1)
        /\ \A i \in DOMAIN own : own[i].end_of_sequence <=> (i = Len(own))

\* Entries are queued in the order the items were sampled.
EntriesInSampleOrder ==
    \A i, j \in DOMAIN QueuedEntries :
        i <= j => QueuedEntries[i].item <= QueuedEntries[j].item

\* C4 as stated: after a sampling_done callback, the queued entries of every
\* item it delivered reproduce the item's chunks in order, with the info
\* header on exactly the first and end_of_sequence on exactly the last entry.
C4_EveryItemReproduced ==
    /\ EntriesInSampleOrder
    /\ sample.last.op = "sampling_done" =>
         \A i \in DOMAIN sample.last.samples :
             ItemReproduced(QueuedEntries, sample.last.samples[i])

\* C4 as amended: the same, for every delivered item that has at least one
\* chunk (an item without chunks yields one entry without info header and
\* with end_of_sequence false).
C4_ItemsWithChunksReproduced ==
    /\ EntriesInSampleOrder
    /\ sample.last.op = "sampling_done" =>
         \A i \in DOMAIN sample.last.samples :
             sample.last.samples[i].chunks # <<>> =>
                 ItemReproduced(QueuedEntries, sample.last.samples[i])

\* C4 witness: a delivered item is split across two queued responses.
C4_Witness ==
    /\ sample.last.op = "sampling_done"
    /\ \E i \in DOMAIN SampleQueue :
         /\ i + 1 \in DOMAIN SampleQueue
         /\ SampleQueue[i].entries # <<>>
         /\ SampleQueue[i + 1].entries # <<>>
         /\ Last(SampleQueue[i].entries).item
              = Head(SampleQueue[i + 1].entries).item
         /\ \E k \in DOMAIN sample.last.samples :
              sample.last.samples[k].id = Last(SampleQueue[i].entries).item

\* C6 as stated: once the sample reactor is finished, no step enqueues a
\* sample request on the table and no step adds a response to the queue.
C6_NoWorkAfterFinish ==
    [][sample.is_finished_ =>
         /\ Len(sample.table_requests') <= Len(sample.table_requests)
         /\ Len(sample.responses_to_send_') <= Len(sample.responses_to_send_)]_vars

C21_NoReadWhileSamplesOwed ==
    /\ [](sample.task_info_.fetched_samples
            <= sample.task_info_.requested_samples)
    /\ [](sample.task_info_.fetched_samples
            < sample.task_info_.requested_samples => sample.reads = 0)
    /\ [][sample.reads' > sample.reads =>
            /\ sample.last'.op = "sampling_done_read"
            /\ sample.task_info_.fetched_samples'
                 = sample.task_info_.requested_samples']_vars

\* C21 witness: a request for several samples was served one sample at a
\* time, and the callback that delivered the last one started the next read.
C21_Witness ==
    /\ sample.last.op = "sampling_done_read"
    /\ sample.reads = 1
    /\ sample.task_info_.flexible_batch_size = 1
    /\ sample.task_info_.requested_samples >= 2
    /\ sample.task_info_.fetched_samples = sample.task_info_.requested_samples

\* The items that have an entry in the queue, the number of references to
\* item `id` a response holds, and whether it carries a chunk of the item.
QueuedItems == {QueuedEntries[i].item : i \in DOMAIN QueuedEntries}

References(response, id) ==
    Cardinality({k \in DOMAIN response.table_items :
                     response.table_items[k] = id})

CarriesChunkOf(response, id) ==
    \E e \in DOMAIN response.entries :
        response.entries[e].item = id /\ response.entries[e].data # <<>>

\* C22: for every item with an entry in the queue, exactly one queued
\* response holds a reference to it, and holds it once; no response behind
\* the holder carries a chunk of the item and, when the item has chunks, the
\* holder carries one (it is the last response with a chunk of the item).
\* Hence every response that carries a chunk of an item is, or is followed
\* by, a response that holds a reference to the item.
C22_ReferenceOnLastResponseOfItem ==
    \A id \in QueuedItems :
        LET holders  == {i \in DOMAIN SampleQueue :
                            References(SampleQueue[i], id) > 0}
            carriers == {i \in DOMAIN SampleQueue :
                            CarriesChunkOf(SampleQueue[i], id)}
        IN  /\ Cardinality(holders) = 1
            /\ \A h \in holders : References(SampleQueue[h], id) = 1
            /\ \A h \in holders : \A i \in carriers : i <= h
            /\ carriers # {} => holders \subseteq carriers
            /\ \A i \in carriers : \E h \in holders : h >= i

\* C22 witness: a delivered item has chunks in two queued responses, and the
\* second of them holds the reference.
C22_Witness ==
    /\ sample.last.op = "sampling_done"
    /\ \E k \in DOMAIN sample.last.samples :
       \E i \in DOMAIN SampleQueue :
         LET id == sample.last.samples[k].id
         IN  /\ i + 1 \in DOMAIN SampleQueue
             /\ CarriesChunkOf(SampleQueue[i], id)
             /\ CarriesChunkOf(SampleQueue[i + 1], id)
             /\ References(SampleQueue[i], id) = 0
             /\ References(SampleQueue[i + 1], id) = 1

\* The current request still owes samples.
SamplesOwed ==
    sample.task_info_.fetched_samples < sample.task_info_.requested_samples

\* C24: with a table that answers OK and writes that succeed, the reactor is
\* never in a state where samples are owed, no sample request is outstanding
\* on the table and no write is in flight; and every accepted request for n
\* samples leads to a state where n samples are fetched and the next read is
\* outstanding.
C24_SampleProgress ==
    /\ [](SamplesOwed => (sample.table_requests # <<>> \/ sample.writes > 0))
    /\ \A n \in 1..MaxSampled :
          (/\ sample.task_info_.requested_samples = n
           /\ sample.task_info_.fetched_samples < n)
          ~> (/\ sample.task_info_.requested_samples = n
              /\ sample.task_info_.fetched_samples = n
              /\ sample.reads = 1)

\* C24 witness: samples are owed and the queue is full, so that no sample
\* request is outstanding on the table; a write completion has just started
\* the next write, whose completion will re-arm sampling.
C24_Witness ==
    /\ sample.last.op = "OnWriteDone"
    /\ ~sample.is_finished_
    /\ SamplesOwed
    /\ sample.table_requests = <<>>
    /\ sample.writes = 1
    /\ Len(SampleQueue) >= kMaxQueuedResponses


(***************************************************************************)
(* Insert stream: state after construction, and one action per handler.    *)
(***************************************************************************)
\* Chunk keys a client sends and refers to.
ChunkKeys == {1, 2}

\* What a client sends as one item and what the table does with it.
InsertItemCases ==
    [trajectory : {<<>>, <<1>>, <<1, 2>>}, table : {"known"},
     outcome : {"admitted", "queued", "error"}]
    \cup [trajectory : {<<1>>}, table : {"unknown"}, outcome : {"admitted"}]

\* keep_chunk_keys of a request: nothing, every key once, and lists with a
\* duplicate or with a key that is not held.
KeepLists == {<<>>, <<1>>, <<1, 2>>, <<1, 1>>}

InsertRequests(budget) ==
    [chunks : SUBSET ChunkKeys,
     items : SeqsUpTo(InsertItemCases, Min(2, budget)),
     keep_chunk_keys : KeepLists]

NoMessage == [op |-> "constructor", submitted |-> <<>>, queued |-> FALSE,
              status |-> "none", read_started |-> FALSE, first_missing |-> 0,
              first_failing |-> 0, items_size |-> 0, chunks |-> {},
              keep_chunk_keys |-> <<>>]

InsertConstructed ==
    MaybeStartRead(
      [is_finished_ |-> FALSE,
       responses_to_send_ |-> <<>>,
       read_in_flight_ |-> TRUE,
       chunks_ |-> {},
       reads |-> 0, writes |-> 0, finish_status |-> "none",
       table_inserts |-> {},
       next_key |-> 0, admitted |-> {}, completed |-> <<>>, written |-> <<>>,
       last |-> NoMessage])

SampleIdle == [is_finished_ |-> TRUE]

InsertInit ==
    /\ insert = InsertConstructed
    /\ sample = SampleIdle
    /\ release = ReleaseIdle
    /\ OthersIdle

InsertOnReadDone ==
    /\ insert.reads > 0
    /\ \E ok \in BOOLEAN :
       \E request \in InsertRequests(MaxItems - insert.next_key) :
         LET processed == ok /\ ~insert.is_finished_
             saved == SaveChunks(insert.chunks_, request.chunks)
             r0 == [insert EXCEPT
                      !.reads = @ - 1,
                      !.last =
                          IF processed
                          THEN [NoMessage EXCEPT
                                  !.op = "OnReadDone",
                                  !.first_missing =
                                      FirstMissing(saved, request.items),
                                  !.first_failing =
                                      FirstFailing(saved, request.items),
                                  !.items_size = Len(request.items),
                                  !.chunks = request.chunks,
                                  !.keep_chunk_keys = request.keep_chunk_keys]
                          ELSE [NoMessage EXCEPT !.op = "OnReadDone"]]
         IN  insert' = LogRead(r0, InsertBaseOnReadDone(r0, ok, request))
    /\ UNCHANGED <<sample, release, teardown, connection, service>>

InsertOnWriteDone ==
    /\ insert.writes > 0
    /\ \E ok \in BOOLEAN :
         LET r0 == [insert EXCEPT !.writes = @ - 1,
                                  !.last = [NoMessage EXCEPT !.op = "OnWriteDone"]]
         IN  insert' = LogWrite(r0, BaseOnWriteDone(r0, ok))
    /\ UNCHANGED <<sample, release, teardown, connection, service>>

\* The table reports one of the items it accepted, in any order.
InsertCompletedCallback ==
    /\ \E key \in insert.table_inserts :
         LET r0 == [insert EXCEPT
                      !.table_inserts = @ \ {key},
                      !.completed = Append(@, key),
                      !.last = [NoMessage EXCEPT !.op = "insert_completed"]]
         IN  insert' = LogRead(r0, LogWrite(r0, InsertCompleted(r0, key)))
    /\ UNCHANGED <<sample, release, teardown, connection, service>>

InsertNext ==
    \/ InsertOnReadDone
    \/ InsertOnWriteDone
    \/ InsertCompletedCallback

SpecInsert == InsertInit /\ [][InsertNext]_vars


(***************************************************************************)
(* Properties of the insert stream.                                        *)
(***************************************************************************)
InsertQueue == insert.responses_to_send_

NoDuplicates(s) == \A i, j \in DOMAIN s : s[i] = s[j] => i = j

Occurrences(s, x) == Cardinality({i \in DOMAIN s : s[i] = x})

\* The stream has ended and nothing is left to happen on it.
InsertStreamOver ==
    /\ insert.is_finished_
    /\ insert.reads = 0
    /\ insert.writes = 0
    /\ insert.table_inserts = {}

\* C3 as stated: when an insert stream has ended with OK, every admitted key
\* occurs exactly once in the written responses, in table-completion order.
C3_OkStreamAcksEveryAdmittedKey ==
    (InsertStreamOver /\ insert.finish_status = "OK") =>
        /\ \A key \in insert.admitted : Occurrences(insert.written, key) = 1
        /\ insert.written = insert.completed

\* C3 as amended: the keys written are a duplicate-free prefix of the keys in
\* table-completion order, all of them admitted; as long as the reactor is
\* not finished no key is lost (when the table has reported every admitted
\* key and the queue is drained, every admitted key was written once).  Keys
\* reported after the finish or still queued at the finish are not written,
\* also on a stream that ends with OK.
C3_WrittenKeysArePrefixOfCompletions ==
    /\ IsPrefix(insert.written, insert.completed)
    /\ NoDuplicates(insert.written)
    /\ Range(insert.completed) \subseteq insert.admitted
    /\ (~insert.is_finished_ /\ insert.table_inserts = {} /\ InsertQueue = <<>>)
         => /\ insert.written = insert.completed
            /\ Range(insert.written) = insert.admitted

\* C3 witness: a stream that ended with OK wrote some of the completed keys
\* and lost others.
C3_Witness ==
    /\ InsertStreamOver
    /\ insert.finish_status = "OK"
    /\ insert.written # <<>>
    /\ Len(insert.written) < Len(insert.completed)

\* C5 as stated: no read is started on a finished insert reactor.
C5_NoReadAfterFinish ==
    [][insert.is_finished_ => insert.reads' <= insert.reads]_vars

\* C8: the insert queue never holds more than 2 responses, and a key that
\* completes while 2 are queued is appended to the tail response.
C8_InsertQueueAtMostTwo ==
    /\ [](Len(InsertQueue) <= 2)
    /\ [][(/\ insert.last'.op = "insert_completed"
           /\ ~insert.is_finished_
           /\ Len(insert.responses_to_send_) = 2)
          => insert.responses_to_send_' =
                 [insert.responses_to_send_ EXCEPT
                    ![2].keys = Append(@, Last(insert.completed'))]]_vars

\* C8 witness: a completed key was coalesced into the tail of a full queue.
C8_Witness ==
    /\ insert.last.op = "insert_completed"
    /\ Len(InsertQueue) = 2
    /\ Len(InsertQueue[2].keys) >= 2
    /\ Last(InsertQueue[2].keys) = Last(insert.completed)

\* C10 as stated: after a message with items was processed with status OK, a
\* read is in flight only if no item of the message was queued by the table.
C10_ReadResumesOnlyIfAllAdmitted ==
    (/\ insert.last.op = "OnReadDone"
     /\ insert.last.status = "OK"
     /\ insert.last.submitted # <<>>
     /\ insert.last.queued)
    => (~insert.read_in_flight_ /\ insert.reads = 0)

C17_MissingChunkFailsInternal ==
    (insert.last.op = "OnReadDone" /\ insert.last.first_missing > 0)
    => /\ insert.is_finished_
       /\ insert.last.status = "INTERNAL"
       /\ insert.finish_status = "INTERNAL"
       /\ Len(insert.last.submitted) < insert.last.first_missing

\* C17 as amended: such a message fails the stream and the item is not
\* submitted; the status is Internal exactly when every item before it in
\* the message was submitted, and otherwise the status (NotFound, or the
\* table's) of the earlier item that failed.  A message fails with Internal
\* only for a missing chunk.
C17_MissingChunkFailsStream ==
    /\ (insert.last.op = "OnReadDone" /\ insert.last.first_missing > 0)
       => /\ insert.is_finished_
          /\ insert.last.status \in {"INTERNAL", "NOT_FOUND", "CANCELLED"}
          /\ insert.finish_status = insert.last.status
          /\ Len(insert.last.submitted) < insert.last.first_missing
          /\ insert.last.status = "INTERNAL"
               <=> Len(insert.last.submitted) = insert.last.first_missing - 1
    /\ (insert.last.op = "OnReadDone" /\ insert.last.status = "INTERNAL")
       => insert.last.first_missing > 0

\* C17 witness: the second item of a message named a chunk that is not held;
\* the first item was submitted, the second was not, the stream failed with
\* Internal.
C17_Witness ==
    /\ insert.last.op = "OnReadDone"
    /\ insert.last.first_missing = 2
    /\ Len(insert.last.submitted) = 1
    /\ insert.finish_status = "INTERNAL"

\* The keys of the queued responses of reactor r that were not yet handed to
\* a write, in queue order (the head is being written while a write is
\* outstanding).
KeysNotYetWritten(r) ==
    LET q == r.responses_to_send_
        waiting == IF q # <<>> /\ r.writes > 0 THEN Tail(q) ELSE q
    IN  Flatten([i \in DOMAIN waiting |-> waiting[i].keys])

\* C20: the keys written, response after response and key after key,
\* followed by the keys queued for later writes, are the first keys of the
\* table's completion sequence, in its order (all of them while the reactor
\* is not finished), and one insert_completed call adds one key at most.
C20_KeysInCompletionOrder ==
    /\ [](LET keys == insert.written \o KeysNotYetWritten(insert)
          IN  /\ keys = SubSeq(insert.completed, 1, Len(keys))
              /\ ~insert.is_finished_ => keys = insert.completed)
    /\ [][insert.last'.op = "insert_completed" =>
            Len(insert.written' \o KeysNotYetWritten(insert'))
              <= Len(insert.written \o KeysNotYetWritten(insert)) + 1]_vars

\* C20 witness: two items completed in the reverse of the order they were
\* submitted in, and their keys were written in completion order.
C20_Witness ==
    /\ Len(insert.written) >= 2
    /\ insert.written[1] > insert.written[2]
    /\ insert.written = SubSeq(insert.completed, 1, Len(insert.written))

\* The step from r to rn gave a message to ProcessIncomingRequest.
MessageProcessed(rn) ==
    rn.last.op = "OnReadDone" /\ rn.last.status # "none"

\* The items of the message were submitted in message order (item i of the
\* message gets key next_key + i), up to the first item that cannot be
\* submitted and no further; the message fails there; every submitted item
\* is held by the table, and no earlier item left it.
SubmittedUpToFailure(r, rn) ==
    LET message == rn.last
        m       == Len(message.submitted)
    IN  /\ \A i \in 1..m : message.submitted[i] = r.next_key + i
        /\ m = IF message.first_failing > 0
               THEN message.first_failing - 1
               ELSE message.items_size
        /\ message.first_failing > 0 =>
              /\ message.status \in {"INTERNAL", "NOT_FOUND", "CANCELLED"}
              /\ rn.is_finished_
        /\ message.status = "FAILED_PRECONDITION" =>
              /\ message.first_failing = 0
              /\ message.items_size > 0
              /\ rn.is_finished_
        /\ Range(message.submitted) \subseteq rn.table_inserts
        /\ r.table_inserts \subseteq rn.table_inserts
        /\ rn.admitted = r.admitted \cup Range(message.submitted)

\* C25 as stated: the items of a message are submitted in message order up
\* to the failure point; when the message fails at an item or at the
\* ReleaseOutOfRangeChunks check, the items before the failure point stay
\* submitted and the chunks of the message are still in the local map.
C25_FailedMessageKeepsItsChunks ==
    [][MessageProcessed(insert') =>
         /\ SubmittedUpToFailure(insert, insert')
         /\ insert.last'.status # "OK" =>
               insert.last'.chunks \subseteq insert.chunks_']_vars

\* C25 as amended: the same for the items; when the message fails at an
\* item, the local map holds what it held and the chunks of the message;
\* when it fails at the ReleaseOutOfRangeChunks check, every item of the
\* message was submitted and the local map holds only the chunks whose keys
\* are in keep_chunk_keys: the others were erased before the check, those of
\* the message included.
C25_FailedReleaseKeepsListedChunks ==
    [][MessageProcessed(insert') =>
         /\ SubmittedUpToFailure(insert, insert')
         /\ insert.last'.first_failing > 0 =>
               insert.chunks_' = insert.chunks_ \cup insert.last'.chunks
         /\ insert.last'.status = "FAILED_PRECONDITION" =>
               insert.chunks_' =
                   {k \in insert.chunks_ \cup insert.last'.chunks :
                        k \in Range(insert.last'.keep_chunk_keys)}]_vars

\* C25 witness: every item of a message was submitted, the message failed at
\* the ReleaseOutOfRangeChunks check, and a chunk of the message is no longer
\* in the local map.
C25_Witness ==
    /\ insert.last.op = "OnReadDone"
    /\ insert.last.status = "FAILED_PRECONDITION"
    /\ insert.last.items_size >= 1
    /\ Len(insert.last.submitted) = insert.last.items_size
    /\ Range(insert.last.submitted) \subseteq insert.table_inserts
    /\ \E k \in insert.last.chunks : k \notin insert.chunks_

(***************************************************************************)
(* Either stream: the service hosts a sample stream or an insert stream.   *)
(***************************************************************************)
StreamsInit == SampleInit \/ InsertInit

StreamsNext ==
    \/ (sample # SampleIdle /\ SampleNext)
    \/ (insert # InsertIdle /\ InsertNext)

SpecStreams == StreamsInit /\ [][StreamsNext]_vars

\* At most one write is outstanding, and on a reactor that is not finished a
\* write is outstanding exactly when a response is queued (the head).
SingleWriter(r) ==
    /\ r.writes <= 1
    /\ ~r.is_finished_ => (r.writes = 1 <=> r.responses_to_send_ # <<>>)

\* One step of reactor r to rn keeps the queue first-in first-out: a write
\* completion removes the head and nothing else; any other step starts a
\* write only when the queue went from empty to non-empty, keeps every
\* queued response but the tail as it is, and keeps the head as it is while
\* it is being written.
FifoStep(r, rn) ==
    LET q  == r.responses_to_send_
        qn == rn.responses_to_send_
    IN  IF rn.last.op = "OnWriteDone"
        THEN ~rn.is_finished_ => qn = Tail(q)
        ELSE /\ rn.writes > r.writes => (q = <<>> /\ qn # <<>>)
             /\ ~rn.is_finished_ =>
                  /\ Len(qn) >= Len(q)
                  /\ \A i \in 1..(Len(q) - 1) : qn[i] = q[i]
                  /\ (r.writes = 1 /\ q # <<>>) => qn[1] = q[1]

\* C12: in the insert and in the sample stream at most one write is in
\* flight, a callback of the table starts a write only when it made an empty
\* queue non-empty, every other write is started by the completion of the
\* previous one, and responses leave the queue in the order they entered it,
\* unchanged while they are written.
C12_SingleWriterFifo ==
    /\ [](sample # SampleIdle => SingleWriter(sample))
    /\ [](insert # InsertIdle => SingleWriter(insert))
    /\ [][sample # SampleIdle => FifoStep(sample, sample')]_vars
    /\ [][insert # InsertIdle => FifoStep(insert, insert')]_vars

\* C12 witness: on an insert stream the completion of the first write
\* started the write of the next response, which had collected two keys
\* while the first one was being written.
C12_Witness ==
    /\ insert # InsertIdle
    /\ insert.last.op = "OnWriteDone"
    /\ ~insert.is_finished_
    /\ insert.writes = 1
    /\ Len(InsertQueue) = 1
    /\ Len(Head(InsertQueue).keys) >= 2
    /\ Len(insert.written) > Len(Head(InsertQueue).keys)

\* The response at the head of r's queue is being written, and the step to
\* rn neither completes that write nor finishes the reactor (which drops the
\* queue).
WriteStaysInFlight(r, rn) ==
    /\ ~r.is_finished_
    /\ r.writes = 1
    /\ r.responses_to_send_ # <<>>
    /\ rn.last.op # "OnWriteDone"
    /\ ~rn.is_finished_

\* The head response holds the keys logged when the last write was started.
HeadIsAsWritten(r) ==
    LET keys == Head(r.responses_to_send_).keys
        n    == Len(keys)
        m    == Len(r.written)
    IN  /\ n <= m
        /\ \A i \in 1..n : r.written[m - n + i] = keys[i]

\* C23: while the write of the head response is in flight, no step of the
\* stream changes that response: an insert_completed callback adds its key,
\* and a sampling_done callback its entries and references, to responses
\* behind the head only; the insert response being written holds the keys it
\* held when its write was started.
C23_ResponseInFlightNotModified ==
    /\ []((insert # InsertIdle /\ ~insert.is_finished_ /\ insert.writes = 1) =>
            /\ insert.responses_to_send_ # <<>>
            /\ HeadIsAsWritten(insert))
    /\ [][(insert # InsertIdle /\ WriteStaysInFlight(insert, insert')) =>
            /\ insert.responses_to_send_' # <<>>
            /\ Head(insert.responses_to_send_')
                 = Head(insert.responses_to_send_)]_vars
    /\ [][(sample # SampleIdle /\ WriteStaysInFlight(sample, sample')) =>
            /\ sample.responses_to_send_' # <<>>
            /\ Head(sample.responses_to_send_')
                 = Head(sample.responses_to_send_)]_vars

\* C23 witness: an insert_completed callback arrived while the only queued
\* response was being written; its key is in a second response, and the head
\* holds the keys it was written with.
C23_Witness ==
    /\ insert # InsertIdle
    /\ insert.last.op = "insert_completed"
    /\ insert.writes = 1
    /\ Len(InsertQueue) = 2
    /\ Len(InsertQueue[2].keys) = 1
    /\ ~insert.is_finished_
    /\ HeadIsAsWritten(insert)

(***************************************************************************)
(* The local chunk map on its own: chunks are saved and released, with     *)
(* every keep_chunk_keys list up to MaxKeep keys.  A failed release ends   *)
(* the stream.                                                             *)
(***************************************************************************)
ReleaseInit ==
    /\ release = [chunks_ |-> {}, keep_keys |-> <<>>, status |-> "none"]
    /\ sample = SampleIdle
    /\ insert = InsertIdle
    /\ OthersIdle

ReleaseSaveChunks ==
    /\ release.status # "FAILED_PRECONDITION"
    /\ \E request_chunks \in SUBSET (1..MaxChunkKey) :
         release' = [chunks_ |-> SaveChunks(release.chunks_, request_chunks),
                     keep_keys |-> <<>>, status |-> "none"]
    /\ UNCHANGED <<sample, insert, teardown, connection, service>>

ReleaseCall ==
    /\ release.status # "FAILED_PRECONDITION"
    /\ \E keep_keys \in SeqsUpTo(1..MaxChunkKey, MaxKeep) :
         LET res == ReleaseOutOfRangeChunks(release.chunks_, keep_keys)
         IN  release' = [chunks_ |-> res.chunks, keep_keys |-> keep_keys,
                         status |-> res.status]
    /\ UNCHANGED <<sample, insert, teardown, connection, service>>

ReleaseNext == ReleaseSaveChunks \/ ReleaseCall

SpecRelease == ReleaseInit /\ [][ReleaseNext]_vars

\* C9: ReleaseOutOfRangeChunks returns OK or FailedPrecondition; when it
\* returns OK the keys of the local chunk map are exactly the keys of
\* keep_chunk_keys and the map has as many chunks as the list has keys.
C9_ReleaseKeepsExactlyKeepKeys ==
    /\ release.status \in {"none", "OK", "FAILED_PRECONDITION"}
    /\ release.status = "OK" =>
         /\ release.chunks_ = Range(release.keep_keys)
         /\ Cardinality(release.chunks_) = Len(release.keep_keys)

\* C9 witness: a keep list that names a held key twice fails although the
\* remaining keys are the keys of the list.
C9_Witness ==
    /\ release.status = "FAILED_PRECONDITION"
    /\ release.chunks_ # {}
    /\ release.chunks_ = Range(release.keep_keys)

(***************************************************************************)
(* Destruction of a stream reactor and the cell of its completion callback *)
(* (insert_completed_ / sampling_done_).  The strong references to the     *)
(* cell are                                                                *)
(*   callback_   the reactor's shared_ptr member,                          *)
(*   weak_lock   the temporary that weak_ptr.lock() returns in the         *)
(*               destructor,                                               *)
(*   pending     the requests a table keeps together with the callback,    *)
(*   executing   the callbacks a table is running.                         *)
(* table_ptr is how Table keeps the callback of a pending request: as a    *)
(* shared_ptr, or as a weak_ptr that it upgrades to run the callback.      *)
(* handed, waited, ran_in_destructor and ran_after_return are history.     *)
(***************************************************************************)
\* Number of times a callback is handed to a table during one stream.
MaxCallbacks == 3

StrongRefs(t) ==
    (IF t.callback_ THEN 1 ELSE 0) + (IF t.weak_lock THEN 1 ELSE 0)
    + t.executing + (IF t.table_ptr = "shared_ptr" THEN t.pending ELSE 0)

\* Mutant: the destructor waits only for the reactor's own reference.
WeakPtrLock_OnlyOwnReference(t) == t.callback_

\* weak_ptr.lock() in the destructor: non-null while any strong reference
\* to the cell is left.
WeakPtrLock(t) == StrongRefs(t) > 0

TeardownInit ==
    /\ \E table_ptr \in {"shared_ptr", "weak_ptr"} :
         teardown = [table_ptr |-> table_ptr, callback_ |-> TRUE,
                     weak_lock |-> FALSE, pending |-> 0, executing |-> 0,
                     destructor_pc |-> "none", handed |-> 0,
                     waited |-> FALSE, ran_in_destructor |-> FALSE,
                     ran_after_return |-> FALSE]
    /\ sample = SampleIdle
    /\ insert = InsertIdle
    /\ release = ReleaseIdle
    /\ connection = ConnectionIdle
    /\ service = ServiceIdle

\* A handler of the stream hands the callback to a table
\* (InsertOrAssignAsync, EnqueSampleRequest).
HandCallbackToTable ==
    /\ teardown.destructor_pc = "none"
    /\ teardown.handed < MaxCallbacks
    /\ teardown' = [teardown EXCEPT !.pending = @ + 1, !.handed = @ + 1]
    /\ UNCHANGED <<sample, insert, release, connection, service>>

\* A table starts to run the callback of a pending request.
CallbackStart ==
    /\ teardown.pending > 0
    /\ teardown.table_ptr = "weak_ptr" => StrongRefs(teardown) > 0
    /\ teardown' = [teardown EXCEPT
                      !.pending = @ - 1, !.executing = @ + 1,
                      !.ran_after_return =
                          @ \/ teardown.destructor_pc = "returned"]
    /\ UNCHANGED <<sample, insert, release, connection, service>>

\* A table fails to upgrade its weak_ptr and drops the request.
CallbackDropped ==
    /\ teardown.pending > 0
    /\ teardown.table_ptr = "weak_ptr"
    /\ StrongRefs(teardown) = 0
    /\ teardown' = [teardown EXCEPT !.pending = @ - 1]
    /\ UNCHANGED <<sample, insert, release, connection, service>>

\* A running sampling_done_ hands sampling_done_ to the table again
\* (MaybeStartSampling).  After the destructor reset the member, the table
\* gets an empty pointer and has nothing to run.
CallbackEnqueues ==
    /\ teardown.executing > 0
    /\ teardown.handed < MaxCallbacks
    /\ teardown' = [teardown EXCEPT
                      !.pending = IF teardown.callback_ THEN @ + 1 ELSE @,
                      !.handed = @ + 1,
                      !.ran_after_return =
                          @ \/ teardown.destructor_pc = "returned"]
    /\ UNCHANGED <<sample, insert, release, connection, service>>

\* A running callback returns and the table releases its reference.
CallbackEnd ==
    /\ teardown.executing > 0
    /\ teardown' = [teardown EXCEPT
                      !.executing = @ - 1,
                      !.ran_in_destructor =
                          @ \/ teardown.destructor_pc \in {"loop", "locked"},
                      !.ran_after_return =
                          @ \/ teardown.destructor_pc = "returned"]
    /\ UNCHANGED <<sample, insert, release, connection, service>>

\* OnDone deletes the reactor.  The destructor copies the member into a
\* weak_ptr and resets the member.
DestructorBegin ==
    /\ teardown.destructor_pc = "none"
    /\ teardown' = [teardown EXCEPT !.callback_ = FALSE,
                                    !.destructor_pc = "loop"]
    /\ UNCHANGED <<sample, insert, release, connection, service>>

\* while (weak_ptr.lock()): the destructor returns when the lock fails.
DestructorLock ==
    /\ teardown.destructor_pc = "loop"
    /\ teardown' = IF WeakPtrLock(teardown)
                   THEN [teardown EXCEPT !.weak_lock = TRUE,
                                         !.waited = TRUE,
                                         !.destructor_pc = "locked"]
                   ELSE [teardown EXCEPT !.destructor_pc = "returned"]
    /\ UNCHANGED <<sample, insert, release, connection, service>>

\* The temporary is released and the destructor sleeps for kCallbackWaitTime.
DestructorSleep ==
    /\ teardown.destructor_pc = "locked"
    /\ teardown' = [teardown EXCEPT !.weak_lock = FALSE,
                                    !.destructor_pc = "loop"]
    /\ UNCHANGED <<sample, insert, release, connection, service>>

TeardownNext ==
    \/ HandCallbackToTable
    \/ CallbackStart
    \/ CallbackDropped
    \/ CallbackEnqueues
    \/ CallbackEnd
    \/ DestructorBegin
    \/ DestructorLock
    \/ DestructorSleep

SpecTeardown == TeardownInit /\ [][TeardownNext]_vars

\* C13: when the destructor of a reactor has returned, no strong reference
\* to the callback cell is left, no callback is running, and no callback has
\* started, run or returned since.
C13_DestructorWaitsForCallbacks ==
    teardown.destructor_pc = "returned" =>
        /\ StrongRefs(teardown) = 0
        /\ teardown.executing = 0
        /\ ~teardown.ran_after_return

\* C13 witness: the destructor found the cell held, waited, a callback
\* returned meanwhile, and the destructor returned after it.
C13_Witness ==
    /\ teardown.destructor_pc = "returned"
    /\ teardown.waited
    /\ teardown.ran_in_destructor

(***************************************************************************)
(* InitializeConnection::Reactor, variable `connection`.                   *)
(* Fields of the C++ object: request_, response_, table_ptr_ (0 is         *)
(* nullptr).  Transport: reads / writes outstanding, finish_calls = the    *)
(* statuses passed to Finish, in call order, done = OnDone has run,        *)
(* aborted = the process stopped in the transport.  Heap: allocated and    *)
(* deleted count the cells created by new and destroyed by delete.         *)
(* lookups counts the calls of TableByName; written lists the addresses of *)
(* the responses handed to StartWrite; received lists the messages read;   *)
(* last is the last handler and its `ok`.                                  *)
(***************************************************************************)
\* getpid() of the server.
ServerPid == 1

\* The address of the heap cell that `new std::shared_ptr<Table>` returns.
CellAddress == 4096

\* Process ids a client sends: none (the field is left at 0), the server's
\* and another one.
Pids == {0, ServerPid, 2}

ConnectionRequests ==
    [pid : Pids, table_name : {"known", "known_2", "unknown"},
     ownership_transferred : BOOLEAN]

\* What the transport does with a second call of Finish on one stream, which
\* its contract does not allow: it ignores the call or it stops the process.
SecondFinishOutcomes == {"ignored", "aborted"}

\* grpc::ServerBidiReactor::Finish.
ConnectionFinish(c, status, outcome) ==
    IF c.finish_calls = <<>>
    THEN [c EXCEPT !.finish_calls = Append(@, status)]
    ELSE [c EXCEPT !.finish_calls = Append(@, status),
                   !.aborted = (outcome = "aborted")]

\* Reactor::Reactor.  `local` is IsLocalhostOrInProcess(context->peer()).
Reactor(local) ==
    LET c == [request_ |-> [pid |-> 0, table_name |-> "",
                            ownership_transferred |-> FALSE],
              response_ |-> [address |-> 0],
              table_ptr_ |-> 0,
              reads |-> 0, writes |-> 0, finish_calls |-> <<>>,
              done |-> FALSE, aborted |-> FALSE,
              allocated |-> 0, deleted |-> 0, lookups |-> 0,
              written |-> <<>>, received |-> <<>>,
              last |-> [op |-> "constructor", ok |-> TRUE]]
    IN  IF ~local THEN ConnectionFinish(c, "OK", "ignored")
        ELSE StartRead(c)

\* StartWrite(&response_).
WriteResponse(c) ==
    StartWrite([c EXCEPT !.written = Append(@, c.response_.address)])

\* The end of OnReadDone, reached with a second message from the server's
\* pid: Finish(Internal) without return, then Finish(OK).
UnexpectedRequest(c, outcome) ==
    LET c1 == IF ~c.request_.ownership_transferred
              THEN ConnectionFinish(c, "INTERNAL", outcome)
              ELSE c
    IN  ConnectionFinish(c1, "OK", outcome)

\* table_ptr_ == nullptr
HasNoCell(c) == c.table_ptr_ = 0

\* Reactor::OnReadDone.  `request` is the message read into request_.
ReactorOnReadDone(c, ok, request, outcome) ==
    IF ~ok THEN ConnectionFinish(c, "INTERNAL", outcome)
    ELSE
      LET c1 == [c EXCEPT !.request_ = request,
                           !.received = Append(@, request)]
      IN  IF c1.request_.pid # ServerPid
          THEN WriteResponse([c1 EXCEPT !.response_.address = 0])
          ELSE IF HasNoCell(c1)
          THEN LET c2 == [c1 EXCEPT !.lookups = @ + 1]
               IN  IF c2.request_.table_name = "unknown"
                   THEN ConnectionFinish(c2, "NOT_FOUND", outcome)
                   ELSE WriteResponse(
                            [c2 EXCEPT !.table_ptr_ = CellAddress,
                                       !.allocated = @ + 1,
                                       !.response_.address = CellAddress])
          ELSE UnexpectedRequest(c1, outcome)

\* Mutant: the address of the response is not tested.
ClosesAfterWrite_Never(c) == FALSE

\* response_.address() == 0
ClosesAfterWrite(c) == c.response_.address = 0

\* Reactor::OnWriteDone.
ReactorOnWriteDone(c, ok, outcome) ==
    IF ~ok THEN ConnectionFinish(c, "INTERNAL", outcome)
    ELSE IF ClosesAfterWrite(c) THEN ConnectionFinish(c, "OK", outcome)
    ELSE StartRead([c EXCEPT !.request_ = [pid |-> 0, table_name |-> "",
                                           ownership_transferred |-> FALSE]])

\* Mutant: OnDone leaves the cell alone.
ReactorOnDone_NoDelete(c) == [c EXCEPT !.done = TRUE]

\* Reactor::OnDone.
ReactorOnDone(c) ==
    IF c.table_ptr_ # 0
    THEN [c EXCEPT !.deleted = @ + 1, !.done = TRUE]
    ELSE [c EXCEPT !.done = TRUE]

ConnectionInit ==
    /\ \E local \in BOOLEAN : connection = Reactor(local)
    /\ sample = SampleIdle
    /\ insert = InsertIdle
    /\ release = ReleaseIdle
    /\ teardown = TeardownIdle
    /\ service = ServiceIdle

ConnectionOnReadDone ==
    /\ connection.reads > 0
    /\ ~connection.aborted
    /\ \E ok \in BOOLEAN :
       \E request \in ConnectionRequests :
       \E outcome \in SecondFinishOutcomes :
         connection' =
             ReactorOnReadDone(
                 [connection EXCEPT !.reads = @ - 1,
                                    !.last = [op |-> "OnReadDone", ok |-> ok]],
                 ok, request, outcome)
    /\ UNCHANGED <<sample, insert, release, teardown, service>>

ConnectionOnWriteDone ==
    /\ connection.writes > 0
    /\ ~connection.aborted
    /\ \E ok \in BOOLEAN :
       \E outcome \in SecondFinishOutcomes :
         connection' =
             ReactorOnWriteDone(
                 [connection EXCEPT !.writes = @ - 1,
                                    !.last = [op |-> "OnWriteDone", ok |-> ok]],
                 ok, outcome)
    /\ UNCHANGED <<sample, insert, release, teardown, service>>

\* The transport calls OnDone once, after Finish and after every operation
\* it started has completed.
ConnectionOnDone ==
    /\ connection.finish_calls # <<>>
    /\ connection.reads = 0
    /\ connection.writes = 0
    /\ ~connection.done
    /\ ~connection.aborted
    /\ connection' = ReactorOnDone(
                         [connection EXCEPT !.last.op = "OnDone"])
    /\ UNCHANGED <<sample, insert, release, teardown, service>>

ConnectionNext ==
    \/ ConnectionOnReadDone
    \/ ConnectionOnWriteDone
    \/ ConnectionOnDone

SpecConnection == ConnectionInit /\ [][ConnectionNext]_vars

\* C14 as stated: when the second message of a client with the server's pid,
\* read after the address of the cell was sent, does not carry
\* ownership_transferred, Finish is called exactly once, with Internal.
C14_UnexpectedMessageFinishesInternal ==
    (/\ connection.last.op \in {"OnReadDone", "OnDone"}
     /\ connection.last.ok
     /\ Len(connection.received) = 2
     /\ connection.received[1].pid = ServerPid
     /\ connection.received[2].pid = ServerPid
     /\ ~connection.received[2].ownership_transferred)
    => connection.finish_calls = <<"INTERNAL">>

\* C15: after a first request with a pid that is not the server's, the
\* server has looked up no table, allocated no cell and started one write,
\* of a response with address 0, and no further read; it has not called
\* Finish while the write is outstanding, and when the write has completed
\* successfully it has called Finish exactly once, with OK.
C15_OtherPidGetsAddressZero ==
    (/\ Len(connection.received) = 1
     /\ connection.received[1].pid # ServerPid)
    => /\ connection.lookups = 0
       /\ connection.allocated = 0
       /\ connection.table_ptr_ = 0
       /\ connection.written = <<0>>
       /\ connection.reads = 0
       /\ connection.writes = 1 => connection.finish_calls = <<>>
       /\ (connection.writes = 0 /\ connection.last.ok)
            => connection.finish_calls = <<"OK">>

\* C15 witness: the write of the response with address 0 has completed and
\* the stream was finished with OK.
C15_Witness ==
    /\ Len(connection.received) = 1
    /\ connection.received[1].pid # ServerPid
    /\ connection.last = [op |-> "OnWriteDone", ok |-> TRUE]
    /\ connection.finish_calls = <<"OK">>

\* C16: the server allocates at most one cell; it deletes a cell only in
\* OnDone, and when OnDone has run every cell it allocated was deleted once.
C16_CellDeletedOnceInOnDone ==
    /\ connection.allocated <= 1
    /\ connection.deleted <= connection.allocated
    /\ ~connection.done => connection.deleted = 0
    /\ connection.done => connection.deleted = connection.allocated

\* C16 witness: a stream that allocated a cell and then failed has ended, and
\* the cell was deleted.
C16_Witness ==
    /\ connection.done
    /\ connection.allocated = 1
    /\ connection.deleted = 1
    /\ Head(connection.finish_calls) = "INTERNAL"

(***************************************************************************)
(* ReverbServiceImpl: Initialize and the unary handlers MutatePriorities   *)
(* and Reset, variable `service`.                                          *)
(* Fields of the C++ object: checkpointer_ (TRUE = configured), tables_    *)
(* (name -> table; a table is the position it has in the vector given to   *)
(* Create, 0 is nullptr), tables_state_id_.  pc is "constructed" before    *)
(* Initialize, then "serving" or "failed"; status is what Initialize       *)
(* returned.  History: tables (the vector given to Initialize), loads (the *)
(* calls made on the checkpointer, with the status each returned), last    *)
(* (the last unary call: rpc, requested table name, the calls it made on   *)
(* tables with the status each returned, the status it finished with).     *)
(* absl::Status codes are written "kOk", "kNotFound", ...; grpc status     *)
(* codes "OK", "NOT_FOUND", ...                                            *)
(***************************************************************************)
\* Largest number of tables given to Create.
MaxTables == 2

TableNames == {"dist", "queue"}

\* Statuses a checkpointer or a table returns.
AbslStatuses == {"kOk", "kNotFound", "kInvalidArgument", "kDataLoss"}

\* ToGrpcStatus: the grpc status with the code of the absl status.
ToGrpcStatus(status) ==
    CASE status = "kOk" -> "OK"
      [] status = "kNotFound" -> "NOT_FOUND"
      [] status = "kInvalidArgument" -> "INVALID_ARGUMENT"
      [] status = "kDataLoss" -> "DATA_LOSS"

EmptyRegistry == [name \in {} |-> 0]

\* The loop tables_[name] = std::move(table): of two tables with one name
\* the later one stays.
RegisterTables(tables) ==
    [name \in {tables[i] : i \in DOMAIN tables} |->
        CHOOSE i \in DOMAIN tables :
            /\ tables[i] = name
            /\ \A j \in DOMAIN tables : tables[j] = name => j <= i]

\* Mutant: a checkpoint that is not found fails the initialization too.
LoadFailed_AlsoNotFound(status) == status # "kOk"

\* !status.ok() && !absl::IsNotFound(status)
LoadFailed(status) == status # "kOk" /\ status # "kNotFound"

\* ReverbServiceImpl::Initialize.  `latest` and `fallback` are the statuses
\* the checkpointer returns from LoadLatest and LoadFallbackCheckpoint,
\* `id` the 128 bits drawn from rnd_.
Initialize(svc, tables, latest, fallback, id) ==
    LET s1 == IF ~svc.checkpointer_ THEN svc
              ELSE IF latest = "kNotFound"
              THEN [svc EXCEPT
                      !.loads = <<[call |-> "LoadLatest", status |-> latest],
                                  [call |-> "LoadFallbackCheckpoint",
                                   status |-> fallback]>>]
              ELSE [svc EXCEPT
                      !.loads = <<[call |-> "LoadLatest", status |-> latest]>>]
        status == IF s1.loads = <<>> THEN "kOk" ELSE Last(s1.loads).status
    IN  IF svc.checkpointer_ /\ LoadFailed(status)
        THEN [s1 EXCEPT !.pc = "failed", !.status = status]
        ELSE [s1 EXCEPT !.pc = "serving", !.status = "kOk",
                        !.tables_ = RegisterTables(tables),
                        !.tables_state_id_ = id]

\* Mutant: a name that is not registered resolves to some registered table.
TableByName_NeverNull(tables_, name) ==
    IF name \in DOMAIN tables_ THEN tables_[name]
    ELSE IF DOMAIN tables_ = {} THEN 0
    ELSE tables_[CHOOSE n \in DOMAIN tables_ : TRUE]

\* ReverbServiceImpl::TableByName.
TableByName(tables_, name) ==
    IF name \in DOMAIN tables_ THEN tables_[name] ELSE 0

\* ReverbServiceImpl::MutatePriorities.  `table_status` is what
\* Table::MutateItems returns.
MutatePriorities(svc, name, table_status) ==
    LET table == TableByName(svc.tables_, name)
    IN  IF table = 0
        THEN [svc EXCEPT !.last = [rpc |-> "MutatePriorities", table |-> name,
                                   ops |-> <<>>, finish |-> "NOT_FOUND"]]
        ELSE [svc EXCEPT !.last =
                  [rpc |-> "MutatePriorities", table |-> name,
                   ops |-> <<[table |-> table, op |-> "MutateItems",
                              status |-> table_status]>>,
                   finish |-> ToGrpcStatus(table_status)]]

\* ReverbServiceImpl::Reset.  `table_status` is what Table::Reset returns.
Reset(svc, name, table_status) ==
    LET table == TableByName(svc.tables_, name)
    IN  IF table = 0
        THEN [svc EXCEPT !.last = [rpc |-> "Reset", table |-> name,
                                   ops |-> <<>>, finish |-> "NOT_FOUND"]]
        ELSE [svc EXCEPT !.last =
                  [rpc |-> "Reset", table |-> name,
                   ops |-> <<[table |-> table, op |-> "Reset",
                              status |-> table_status]>>,
                   finish |-> ToGrpcStatus(table_status)]]

NoCall == [rpc |-> "none", table |-> "", ops |-> <<>>, finish |-> "none"]

\* ReverbServiceImpl::Create up to the call of Initialize.
ServiceInit ==
    /\ \E checkpointer \in BOOLEAN :
       \E tables \in SeqsUpTo(TableNames, MaxTables) :
         service = [pc |-> "constructed", checkpointer_ |-> checkpointer,
                    tables_ |-> EmptyRegistry, tables_state_id_ |-> "unset",
                    status |-> "none", tables |-> tables, loads |-> <<>>,
                    last |-> NoCall]
    /\ sample = SampleIdle
    /\ insert = InsertIdle
    /\ release = ReleaseIdle
    /\ teardown = TeardownIdle
    /\ connection = ConnectionIdle

ServiceInitialize ==
    /\ service.pc = "constructed"
    /\ \E latest \in AbslStatuses :
       \E fallback \in AbslStatuses :
       \E id \in {"id_1", "id_2"} :
         service' = Initialize(service, service.tables, latest, fallback, id)
    /\ UNCHANGED <<sample, insert, release, teardown, connection>>

ServiceMutatePriorities ==
    /\ service.pc = "serving"
    /\ \E name \in TableNames \cup {"unknown"} :
       \E table_status \in AbslStatuses :
         service' = MutatePriorities(service, name, table_status)
    /\ UNCHANGED <<sample, insert, release, teardown, connection>>

ServiceReset ==
    /\ service.pc = "serving"
    /\ \E name \in TableNames \cup {"unknown"} :
       \E table_status \in AbslStatuses :
         service' = Reset(service, name, table_status)
    /\ UNCHANGED <<sample, insert, release, teardown, connection>>

ServiceNext ==
    \/ ServiceInitialize
    \/ ServiceMutatePriorities
    \/ ServiceReset

SpecService == ServiceInit /\ [][ServiceNext]_vars

\* The table registered under `name`: the last table of the vector given to
\* Create that has this name.
RegisteredTable(name) ==
    CHOOSE i \in DOMAIN service.tables :
        /\ service.tables[i] = name
        /\ \A j \in (i + 1)..Len(service.tables) : service.tables[j] # name

\* The grpc status code with the name of an absl status code.
SameCode ==
    {<<"kOk", "OK">>, <<"kNotFound", "NOT_FOUND">>,
     <<"kInvalidArgument", "INVALID_ARGUMENT">>, <<"kDataLoss", "DATA_LOSS">>}

\* C18: MutatePriorities and Reset for a name that no table given to Create
\* has finish with NotFound and call no table; for the name of a table they
\* make one call, MutateItems or Reset, on the table registered under the
\* name and finish with the code of the status the table returned.  The
\* registry does not change while the service runs.
C18_UnaryHandlersResolveTable ==
    /\ [](service.last.rpc \in {"MutatePriorities", "Reset"} =>
            IF \A i \in DOMAIN service.tables :
                   service.tables[i] # service.last.table
            THEN /\ service.last.finish = "NOT_FOUND"
                 /\ service.last.ops = <<>>
            ELSE /\ Len(service.last.ops) = 1
                 /\ service.last.ops[1].table
                      = RegisteredTable(service.last.table)
                 /\ service.last.ops[1].op =
                      (IF service.last.rpc = "Reset"
                       THEN "Reset" ELSE "MutateItems")
                 /\ <<service.last.ops[1].status, service.last.finish>>
                      \in SameCode)
    /\ [][service.pc = "serving" => service.tables_' = service.tables_]_vars

\* C18 witness: Reset was called with a name that is not registered, on a
\* service that has tables.
C18_Witness ==
    /\ service.last.rpc = "Reset"
    /\ service.last.table = "unknown"
    /\ service.last.finish = "NOT_FOUND"
    /\ service.tables # <<>>

\* C19: with a checkpointer, LoadLatest is the first call; the fallback is
\* loaded exactly when LoadLatest returned NotFound; Initialize fails, with
\* the status of the last load, exactly when that status is an error other
\* than NotFound, and then registers no table and draws no tables_state_id;
\* otherwise it returns OK with every table name registered and a
\* tables_state_id drawn.  Without a checkpointer nothing is loaded.
C19_InitializeLoadsCheckpoint ==
    service.pc # "constructed" =>
        /\ service.checkpointer_ <=> service.loads # <<>>
        /\ service.loads # <<>> =>
             /\ service.loads[1].call = "LoadLatest"
             /\ Len(service.loads) = 2 <=> service.loads[1].status = "kNotFound"
             /\ Len(service.loads) = 2 =>
                  service.loads[2].call = "LoadFallbackCheckpoint"
             /\ Len(service.loads) <= 2
        /\ service.pc = "failed" <=>
             /\ service.loads # <<>>
             /\ Last(service.loads).status \notin {"kOk", "kNotFound"}
        /\ service.pc = "failed" =>
             /\ service.status = Last(service.loads).status
             /\ DOMAIN service.tables_ = {}
             /\ service.tables_state_id_ = "unset"
        /\ service.pc = "serving" =>
             /\ service.status = "kOk"
             /\ DOMAIN service.tables_ = Range(service.tables)
             /\ service.tables_state_id_ # "unset"

\* C19 witness: no checkpoint was found, neither the latest nor the
\* fallback, and the service was initialized with its tables.
C19_Witness ==
    /\ service.pc = "serving"
    /\ Len(service.loads) = 2
    /\ service.loads[2].status = "kNotFound"
    /\ service.tables # <<>>

====
